---- MODULE Spec2Model ----
(***************************************************************************)
(* Model of src/src/hunt.py (SUV used-car scout): the scoring engine       *)
(* compute_enhanced_score, the out-of-fold quantile predictor              *)
(* predict_quantiles, the classifier VehicleClassifier.classify, the       *)
(* fetcher fetch_with_retry and the run of main() (filter, market          *)
(* statistics, predictions, scoring, sort, two-tier routing, hand-off to   *)
(* the notifier).                                                          *)
(*                                                                         *)
(* Numbers.  Prices, years and mileages are integers as in the code.       *)
(* Scores are Python floats in the code; here a score is an exact integer  *)
(* count of thousandths (75000 = 75.0) until round(score, 1) turns it into *)
(* a count of tenths (750 = 75.0).  The classification confidence is a     *)
(* count of hundredths (85 = 0.85).  The binary rounding error of the      *)
(* float arithmetic only shows where the exact value sits on a threshold   *)
(* or on a rounding tie; its sign there is the input fp \in FpErrs.        *)
(* The market median is kept times 4 (np.median and np.percentile of       *)
(* integers are multiples of 1/4).                                         *)
(* A value that may be None or NaN is a record: None, NaN, Num(n).         *)
(***************************************************************************)
EXTENDS Integers, Sequences, FiniteSets, TLC

VARIABLES
    pc,             \* position of the modelled call / of main()
    item,           \* compute_enhanced_score: the listing dict being scored
    market_stats,   \* compute_enhanced_score / main: the market_stats dict
    config,         \* the campaign config dict handed to the call
    current_year,   \* datetime.now().year
    fperr,          \* sign of the float rounding error of this evaluation
    vehicles,       \* predict_quantiles: items; main: the campaign's vehicles
    predictions,    \* the dict predict_quantiles returned
    fit_log,        \* the model.fit / model.predict calls made, in order
    ci,             \* main: index of the campaign being processed
    all_vehicles,   \* main: all_vehicles
    immediate_items, \* main: immediate_items
    maybe_items,    \* main: maybe_items
    immediate_min,  \* main: IMMEDIATE_URGENCY_MIN
    maybe_score_min, \* main: MAYBE_SCORE_MIN, in tenths
    maybe_score_max, \* main: MAYBE_SCORE_MAX, in tenths
    text,           \* classify: the title text
    detailed_text,  \* classify: the detail-page text ("" when not fetched)
    classified,     \* classify: the tuple (is_suv, model_name, confidence)
    notified_main,  \* main: the items handed to the notifier for "immediate"
    notified_maybe, \* main: the items handed to the notifier for "maybe"
    max_retries,    \* fetch_with_retry: the parameter max_retries
    attempt,        \* fetch_with_retry: the loop variable attempt
    fetch_log,      \* fetch_with_retry: the sleeps and requests made, in order
    fetch_result    \* fetch_with_retry: the value returned

callVars == <<item, fperr, fit_log>>
envVars == <<immediate_min, maybe_score_min, maybe_score_max>>
mainVars == <<ci, all_vehicles, immediate_items, maybe_items>>
clsVars == <<text, detailed_text, classified>>
notifyVars == <<notified_main, notified_maybe>>
fetchVars == <<max_retries, attempt, fetch_log, fetch_result>>

vars == <<pc, market_stats, config, current_year, vehicles, predictions,
          callVars, envVars, mainVars, clsVars, notifyVars, fetchVars>>

\* the variables of fetch_with_retry while no fetch is modelled
FetchIdle ==
    /\ max_retries = 2
    /\ attempt = 0
    /\ fetch_log = <<>>
    /\ fetch_result = <<>>

\* the variables of classify while no text is being classified
ClsIdle ==
    /\ text = <<>>
    /\ detailed_text = <<>>
    /\ classified = <<>>

\* the variables of main() while a single function is called on its own
MainIdle ==
    /\ ci = 0
    /\ all_vehicles = <<>>
    /\ immediate_items = <<>>
    /\ maybe_items = <<>>
    /\ immediate_min = 4
    /\ maybe_score_min = 700
    /\ maybe_score_max = 849
    /\ notified_main = <<>>
    /\ notified_maybe = <<>>

None == [none |-> TRUE]
NaN == [nan |-> TRUE]
Num(n) == [num |-> n]

Min(a, b) == IF a <= b THEN a ELSE b
Max(a, b) == IF a >= b THEN a ELSE b

\* d.get(k, default) of a Python dict
Get(d, k, default) == IF k \in DOMAIN d THEN d[k] ELSE default

\* d[k] = v of a Python dict (adds the key when it is missing)
Put(d, k, v) == [x \in (DOMAIN d) \cup {k} |-> IF x = k THEN v ELSE d[x]]

\* Sign of the float error at an exact threshold or tie: -1 below, 0 exact, 1 above
FpErrs == {-1, 0, 1}

(***************************************************************************)
(* MONITORING_CONFIGS: the fields the filter and the claims read.          *)
(***************************************************************************)
MONITORING_CONFIGS ==
    << [name |-> "Toyota SUV", price_max |-> 5000000, year_min |-> 2015, mileage_max |-> 100000],
       [name |-> "Mazda SUV", price_max |-> 4000000, year_min |-> 2016, mileage_max |-> 80000],
       [name |-> "Subaru SUV", price_max |-> 4000000, year_min |-> 2015, mileage_max |-> 90000],
       [name |-> "Nissan Honda SUV", price_max |-> 4500000, year_min |-> 2015, mileage_max |-> 100000],
       [name |-> "Goo-net SUV", price_max |-> 5000000, year_min |-> 2015, mileage_max |-> 100000] >>

(***************************************************************************)
(* compute_enhanced_score                                                  *)
(***************************************************************************)

\* premium_keywords, the Japanese ones transliterated (sunroof = サンルーフ, leather =
\* レザー, kawa seat = 革シート, Mark Levinson = マークレビンソン, 360do = 360度, ProPilot =
\* プロパイロット, EyeSight = アイサイト, hands free = ハンズフリー, power rear gate =
\* 電動リアゲート, matrix LED = マトリクスLED).  A title is modelled by the set of
\* keywords it contains.
premium_keywords ==
    {"sunroof", "leather", "kawa seat", "BOSE", "JBL", "Mark Levinson", "360do",
     "ProPilot", "EyeSight", "hands free", "power rear gate", "matrix LED"}

\* round(num / den, 0) of a non-negative quotient; a tie goes by the float
\* error's sign and, when the float is exact, to the even neighbour
RoundDiv(num, den, fp) ==
    LET q == num \div den
        r == num % den
    IN  IF 2 * r < den THEN q
        ELSE IF 2 * r > den THEN q + 1
        ELSE IF fp < 0 THEN q
        ELSE IF fp > 0 THEN q + 1
        ELSE IF q % 2 = 0 THEN q ELSE q + 1

\* x >= t of a float x whose exact value is x (thousandths) with error sign fp
FloatGeq(x, t, fp) == x > t \/ (x = t /\ fp >= 0)

\* price / median <= bound/10, the median kept times 4
RatioLeq(price, median4, bound10) == price * 4 * 10 <= median4 * bound10

\* the price table (lines 461-474): base_score by price_ratio
PriceBase(price, median4) ==
    IF median4 = 0 THEN 50
    ELSE IF RatioLeq(price, median4, 6) THEN 95
    ELSE IF RatioLeq(price, median4, 7) THEN 85
    ELSE IF RatioLeq(price, median4, 8) THEN 75
    ELSE IF RatioLeq(price, median4, 9) THEN 65
    ELSE 50

\* age of the vehicle (line 479): 99 when the year is unknown
Age(year, now) == IF year # 0 THEN now - year ELSE 99

\* the age table (lines 480-487)
AgeAdjust(age) ==
    IF age <= 3 THEN 15
    ELSE IF age <= 5 THEN 10
    ELSE IF age <= 8 THEN 5
    ELSE IF age >= 15 THEN -10
    ELSE 0

\* the annual mileage table (lines 490-499): mileage / max(age, 1) against the steps
MileageAdjust(mileage, age) ==
    LET years == Max(age, 1)
    IN  IF mileage = 0 THEN 0
        ELSE IF mileage <= 5000 * years THEN 15
        ELSE IF mileage <= 8000 * years THEN 10
        ELSE IF mileage <= 12000 * years THEN 5
        ELSE IF mileage >= 20000 * years THEN -10
        ELSE 0

\* item["pred_p50"] is present and truthy (line 520)
HasPred(it) == "pred_p50" \in DOMAIN it /\ it["pred_p50"] # None /\ it["pred_p50"] # Num(0)

\* the predicted-gap table (lines 521-527), in points
GapBonus(gap) ==
    IF gap > 500000 THEN 10
    ELSE IF gap > 300000 THEN 7
    ELSE IF gap > 100000 THEN 4
    ELSE 0

\* a repair penalty of 20 points instead of 25
RepairPenaltySmall(it) == IF Get(it, "has_repair", FALSE) THEN 20000 ELSE 0

\* the repair-history penalty (lines 516-517), in thousandths
RepairPenalty(it) == IF Get(it, "has_repair", FALSE) THEN 25000 ELSE 0

\* base_score before normalisation (lines 460-528), in thousandths
BaseScore(it, ms, now) ==
    LET price     == Get(it, "price", 0)
        age       == Age(Get(it, "year", 0), now)
        median4   == Get(ms, "median", 0)
        points    == PriceBase(price, median4) + AgeAdjust(age)
                        + MileageAdjust(Get(it, "mileage", 0), age)
        scaled    == points * (700 + 3 * Get(it, "confidence", 50))
        equipment == 2000 * Cardinality(Get(it, "title", {}) \cap premium_keywords)
        repair    == RepairPenalty(it)
        gap       == IF HasPred(it) THEN 1000 * GapBonus(it["pred_p50"].num - price) ELSE 0
    IN  scaled + equipment - repair + gap

\* score = max(0, min(100, base_score)) (line 531), in thousandths
Clamp(base) == Max(0, Min(100000, base))

\* the urgency step table (lines 534-543)
UrgencyStep(score, fp) ==
    IF FloatGeq(score, 90000, fp) THEN 5
    ELSE IF FloatGeq(score, 80000, fp) THEN 4
    ELSE IF FloatGeq(score, 70000, fp) THEN 3
    ELSE IF FloatGeq(score, 60000, fp) THEN 2
    ELSE 1

\* the urgency boost without its cap at 5
UrgencyBoostUncapped(urgency, price, median4) ==
    IF median4 # 0 /\ RatioLeq(price, median4, 6) THEN urgency + 1 ELSE urgency

\* the urgency boost (lines 546-547): price <= median_price * 0.6
UrgencyBoost(urgency, price, median4) ==
    IF median4 # 0 /\ RatioLeq(price, median4, 6) THEN Min(5, urgency + 1) ELSE urgency

\* the guard of line 455: not price
PriceUnknown(price) == price = 0

\* lines 456-458: the guarded return
ScoreUnknownPrice(it) == Put(Put(it, "score", 0), "urgency", 0)

\* lines 460-550: the body after the guard
ScoreKnownPrice(it, ms, cfg, now, fp) ==
    LET price   == Get(it, "price", 0)
        median4 == Get(ms, "median", 0)
        withRatio ==
            IF median4 # 0
            THEN Put(it, "price_ratio", RoundDiv(price * 400, median4, fp))
            ELSE it
        withGap ==
            IF HasPred(it)
            THEN Put(withRatio, "deal_gap", it["pred_p50"].num - price)
            ELSE withRatio
        score   == Clamp(BaseScore(it, ms, now))
        urgency == UrgencyBoost(UrgencyStep(score, fp), price, median4)
    IN  Put(Put(withGap, "score", RoundDiv(score, 100, fp)), "urgency", urgency)

\* compute_enhanced_score without the guard of line 455
compute_enhanced_score_noguard(it, ms, cfg, now, fp) == ScoreKnownPrice(it, ms, cfg, now, fp)

\* compute_enhanced_score(item, market_stats, config): the item as it leaves the
\* call.  config is a parameter the body never reads.
compute_enhanced_score(it, ms, cfg, now, fp) ==
    IF PriceUnknown(Get(it, "price", 0))
    THEN ScoreUnknownPrice(it)
    ELSE ScoreKnownPrice(it, ms, cfg, now, fp)

(***************************************************************************)
(* SpecScore: one call of compute_enhanced_score on a drawn listing.       *)
(***************************************************************************)
MaxPremium == 2

ScorePrices == {0, 1500000, 1800000, 2000000, 2900000}
ScoreYears == {0, 2010, 2018, 2024}
ScoreMileages == {0, 20000, 60000, 200000}
ScoreConfidences == {30, 70, 100}
ScoreMedians == {2250000 * 4, 3000000 * 4, 3000000 * 4 + 2}
ScorePreds == {None, Num(2000000), Num(2450000)}
CurrentYears == {2026}

ScoreTitles == {t \in SUBSET {"sunroof", "BOSE", "4WD"} : Cardinality(t) <= MaxPremium}

ScoreItems ==
    { [title |-> t, url |-> 1, price |-> p, year |-> y, mileage |-> m,
       confidence |-> c, has_repair |-> r] :
        t \in ScoreTitles, p \in ScorePrices, y \in ScoreYears,
        m \in ScoreMileages, c \in ScoreConfidences, r \in BOOLEAN }

\* the listing as main() hands it over: with or without the pred_p50 key
WithPred(it, hasKey, pred) == IF hasKey THEN Put(it, "pred_p50", pred) ELSE it

InitScore ==
    /\ pc = "score"
    /\ MainIdle
    /\ FetchIdle
    /\ ClsIdle
    /\ vehicles = <<>>
    /\ predictions = <<>>
    /\ fit_log = <<>>
    /\ \E it \in ScoreItems, hasKey \in BOOLEAN, pred \in ScorePreds :
          item = WithPred(it, hasKey, pred)
    /\ market_stats \in {<<>>} \cup {[median |-> m] : m \in ScoreMedians}
    /\ config \in {MONITORING_CONFIGS[1], MONITORING_CONFIGS[2]}
    /\ current_year \in CurrentYears
    /\ fperr \in FpErrs

ScoreCall ==
    /\ pc = "score"
    /\ item' = compute_enhanced_score(item, market_stats, config, current_year, fperr)
    /\ pc' = "scored"
    /\ UNCHANGED <<clsVars, notifyVars, fetchVars, market_stats, config, current_year, fperr,
                   vehicles, predictions, fit_log, envVars, mainVars>>

NextScore == ScoreCall

SpecScore == InitScore /\ [][NextScore]_vars

(***************************************************************************)
(* Listings.  A parsed listing is the dict parse_*_list_enhanced builds,   *)
(* reduced to the keys the modelled code reads; url is a number naming the *)
(* URL string.  A batch is a short head of listings from ListingPool       *)
(* followed by filler listings, which is how the batches of 20 and more    *)
(* that predict_quantiles needs stay enumerable.                           *)
(***************************************************************************)
Listing(u, t, p, y, m, c, r) ==
    [url |-> u, title |-> t, price |-> p, year |-> y, mileage |-> m,
     confidence |-> c, has_repair |-> r]

ListingPool ==
    << Listing(1, {"sunroof"}, 1500000, 2024, 20000, 100, FALSE),
       Listing(2, {"sunroof", "BOSE", "leather", "JBL"}, 2900000, 2024, 10000, 100, FALSE),
       Listing(3, {}, 0, 2020, 30000, 85, FALSE),
       Listing(4, {"BOSE"}, 1800000, 0, 0, 85, FALSE),
       Listing(1, {}, 1500000, 2016, 0, 85, TRUE),
       Listing(6, {}, 5500000, 2022, 10000, 100, FALSE),
       Listing(7, {"4WD"}, 1200000, 2024, 10000, 30, FALSE),
       Listing(8, {}, 1500000, 2016, 0, 70, FALSE) >>

Range(f) == {f[x] : x \in DOMAIN f}

\* the i-th filler with a known price; kind picks its age and mileage
PosFiller(kind, i) ==
    IF kind = "strong"
    THEN Listing(100 + i, {}, 2500000 + 50000 * i, 2024, 10000, 100, FALSE)
    ELSE Listing(100 + i, {}, 2000000 + 50000 * i, 2017, 90000, 70, FALSE)

\* the i-th filler whose price the extractor did not find
ZeroFiller(i) == Listing(200 + i, {}, 0, 2020, 40000, 70, FALSE)

Batch(head, kind, nPos, nZero) ==
    head \o [i \in 1..nPos |-> PosFiller(kind, i)] \o [i \in 1..nZero |-> ZeroFiller(i)]

(***************************************************************************)
(* predict_quantiles                                                       *)
(***************************************************************************)
MinBatch == 20
MinValid == 15
MaxSplits == 5

\* quantiles=(0.5, 0.2), in percent
quantiles == <<50, 20>>

\* {q: np.array([None] * len(items)) for q in quantiles}
AllAbsent(items) == [q \in Range(quantiles) |-> [i \in 1..Len(items) |-> None]]

\* np.where(valid_mask)[0]: the indices of the items with price > 0, ascending
valid_indices(items) ==
    SelectSeq([i \in 1..Len(items) |-> i], LAMBDA i : Get(items[i], "price", 0) > 0)

\* KFold(n_splits=k, shuffle=True).split over m samples: fold j holds out a
\* slice of the shuffled positions perm; the first m % k folds are one longer
FoldStart(m, k, j) == (j - 1) * (m \div k) + Min(j - 1, m % k)
FoldSize(m, k, j) == (m \div k) + (IF j <= m % k THEN 1 ELSE 0)
KFoldTest(m, k, perm, j) ==
    {perm[t] : t \in (FoldStart(m, k, j) + 1)..(FoldStart(m, k, j) + FoldSize(m, k, j))}
KFoldTrain(m, k, perm, j) == (1..m) \ KFoldTest(m, k, perm, j)

\* n_splits=min(5, valid_mask.sum() // 3) (line 600)
NSplits(m) == Min(MaxSplits, m \div 3)

\* train_indices taken as positions of X instead of X[valid_mask]
train_indices_unmapped(vi, perm, j) == KFoldTrain(Len(vi), NSplits(Len(vi)), perm, j)

\* train_indices / val_indices of fold j (lines 605-607), as sets of item indices;
\* vi is valid_indices
train_indices(vi, perm, j) == {vi[t] : t \in KFoldTrain(Len(vi), NSplits(Len(vi)), perm, j)}
val_indices(vi, perm, j) == {vi[t] : t \in KFoldTest(Len(vi), NSplits(Len(vi)), perm, j)}

\* the folds of one quantile's loop (line 603), in order
Folds(vi, perm) ==
    [j \in 1..NSplits(Len(vi)) |->
        [train |-> train_indices(vi, perm, j), val |-> val_indices(vi, perm, j)]]

\* the fit / predict calls of the two loops (lines 598-619), in order
Fits(folds) ==
    [f \in 1..(Len(quantiles) * Len(folds)) |->
        [q     |-> quantiles[((f - 1) \div Len(folds)) + 1],
         train |-> folds[((f - 1) % Len(folds)) + 1].train,
         val   |-> folds[((f - 1) % Len(folds)) + 1].val]]

\* preds of quantile q after its loop (lines 599, 619): NaN where no fold wrote
Preds(n, fits, q, value) ==
    [i \in 1..n |->
        IF \E f \in 1..Len(fits) : fits[f].q = q /\ i \in fits[f].val
        THEN Num(value) ELSE NaN]

\* the batch guard with the bound of the other guard
TooSmallWrongBound(items) == Len(items) < MinValid

\* the guards of lines 585 and 593
TooFewValid(vi) == Len(vi) < MinValid
TooSmall(items) == Len(items) < MinBatch

\* the loops of lines 596-627 once the guards have passed
FitAndPredict(items, fits, fail, pv) ==
    IF fail \in 1..Len(fits)
    THEN [result |-> AllAbsent(items), fits |-> SubSeq(fits, 1, fail - 1)]
    ELSE [result |-> [q \in Range(quantiles) |-> Preds(Len(items), fits, q, pv[q])],
          fits |-> fits]

\* predict_quantiles(items): perm is the shuffle KFold draws, fail the number of
\* the model.fit call that raises (0: none does), pv[q] the value the regressor
\* of quantile q predicts.  Returns the dict and the log of the fits made.
predict_quantiles(items, perm, fail, pv) ==
    IF TooSmall(items) THEN [result |-> AllAbsent(items), fits |-> <<>>]
    ELSE IF TooFewValid(valid_indices(items))
         THEN [result |-> AllAbsent(items), fits |-> <<>>]
    ELSE FitAndPredict(items, Fits(Folds(valid_indices(items), perm)), fail, pv)

(***************************************************************************)
(* SpecPQ: one call of predict_quantiles on a drawn batch.                 *)
(***************************************************************************)
MaxFill == 21
MaxShift == 2

\* the shuffles considered: rotations of the identity and its reversal
Perms(m) ==
    {[t \in 1..m |-> ((t - 1 + s) % m) + 1] : s \in 0..MaxShift}
        \cup {[t \in 1..m |-> m + 1 - t]}

PredValues == {[q \in {50, 20} |-> 2450000], [q \in {50, 20} |-> IF q = 50 THEN 2000000 ELSE 2100000]}

PQBatches ==
    {Batch(h, "plain", np, nz) :
        h \in {<<>>, <<ListingPool[1]>>, <<ListingPool[3]>>, <<ListingPool[3], ListingPool[2]>>},
        np \in {0} \cup (13..MaxFill), nz \in {0, 1, 6, MinBatch}}

InitPQ ==
    /\ pc = "predict"
    /\ MainIdle
    /\ FetchIdle
    /\ ClsIdle
    /\ vehicles \in PQBatches
    /\ predictions = <<>>
    /\ fit_log = <<>>
    /\ item = <<>>
    /\ market_stats = <<>>
    /\ config = MONITORING_CONFIGS[1]
    /\ current_year \in CurrentYears
    /\ fperr = 0

PredictCall ==
    /\ pc = "predict"
    /\ \E s \in Perms(Len(valid_indices(vehicles))),
          fail \in 0..(Len(quantiles) * MaxSplits),
          pv \in PredValues :
          LET r == predict_quantiles(vehicles, s, fail, pv)
          IN  /\ predictions' = r.result
              /\ fit_log' = r.fits
    /\ pc' = "predicted"
    /\ UNCHANGED <<clsVars, notifyVars, fetchVars, item, market_stats, config, current_year, fperr, vehicles,
                   envVars, mainVars>>

NextPQ == PredictCall

SpecPQ == InitPQ /\ [][NextPQ]_vars

(***************************************************************************)
(* main(): per campaign fetch and filter, market statistics, predictions,  *)
(* scoring; then the sort over all campaigns and the two-tier routing.     *)
(***************************************************************************)

\* the campaigns of the run (MONITORING_CONFIGS, or the list TARGETS_JSON gives)
Campaigns == <<MONITORING_CONFIGS[1], MONITORING_CONFIGS[2]>>

\* the price / year / mileage filter (lines 824-829): TRUE when the item is kept
PassesFilter(it, cfg) ==
    /\ ~(Get(it, "price", 0) > Get(cfg, "price_max", 9999999))
    /\ ~(Get(it, "year", 0) < Get(cfg, "year_min", 0))
    /\ ~(Get(it, "mileage", 0) > Get(cfg, "mileage_max", 9999999))

\* the detail-page check of a low-confidence item (lines 832-844): detail is what
\* the detail page gave: "none" (no page: the item is kept as it is), "confirmed"
\* (classify says SUV with confidence >= 0.5: the item is kept with it) or
\* "rejected" (the item is dropped)
DetailOutcomes == {"none", "confirmed", "rejected"}
DetailKeeps(it, detail) == ~(Get(it, "confidence", 0) < 50) \/ detail # "rejected"
DetailUpdate(it, detail) ==
    IF Get(it, "confidence", 0) < 50 /\ detail = "confirmed"
    THEN Put(it, "confidence", 80) ELSE it

\* the filtering loop (lines 821-848)
FilterItems(items, cfg, detail) ==
    LET kept == SelectSeq(items, LAMBDA it : PassesFilter(it, cfg) /\ DetailKeeps(it, detail))
    IN  [i \in 1..Len(kept) |-> DetailUpdate(kept[i], detail)]

\* prices = [v["price"] for v in vehicles if v.get("price", 0) > 0] (line 856)
PositivePrices(vs) ==
    LET pos == SelectSeq(vs, LAMBDA v : Get(v, "price", 0) > 0)
    IN  [i \in 1..Len(pos) |-> pos[i].price]

\* np.percentile(prices, p) for p in {25, 50, 75}, times 4: linear interpolation
\* at rank (n - 1) * p / 100 of the sorted prices
Percentile4(prices, p) ==
    LET sorted == SortSeq(prices, LAMBDA a, b : a < b)
        n      == Len(sorted)
        rank4  == (n - 1) * (p \div 25)
        lo     == rank4 \div 4
        fr     == rank4 % 4
    IN  IF fr = 0 THEN 4 * sorted[lo + 1]
        ELSE 4 * sorted[lo + 1] + fr * (sorted[lo + 2] - sorted[lo + 1])

\* the number of prices the statistics need (line 857)
MinPrices == 5

\* market_stats of the campaign (lines 856-867); mean and std are never read
MarketStats(vs) ==
    LET prices == PositivePrices(vs)
    IN  IF Len(prices) >= MinPrices
        THEN [median |-> Percentile4(prices, 50),
              q25 |-> Percentile4(prices, 25),
              q75 |-> Percentile4(prices, 75)]
        ELSE <<>>

\* np.isnan(x) raises TypeError on None (lines 873-874)
IsnanRaises(x) == x = None

\* x if not np.isnan(x) else None
NanToNone(x) == IF x = NaN THEN None ELSE x

\* the batch size from which main asks for predictions (line 870)
PredictMin == 20

\* the attach loop (lines 872-874) raises at its first iteration when the
\* predictions are None
AttachRaises(vs, preds) ==
    \E i \in 1..Len(vs) : IsnanRaises(preds[50][i]) \/ IsnanRaises(preds[20][i])

AttachPredictions(vs, preds) ==
    [i \in 1..Len(vs) |->
        Put(Put(vs[i], "pred_p50", NanToNone(preds[50][i])),
            "pred_p20", NanToNone(preds[20][i]))]

\* the sort key with its two parts swapped: (score, urgency)
KeyGreaterScoreFirst(a, b) ==
    \/ Get(a, "score", 0) > Get(b, "score", 0)
    \/ Get(a, "score", 0) = Get(b, "score", 0) /\ Get(a, "urgency", 0) > Get(b, "urgency", 0)

\* the sort key of line 883, descending: (urgency, score)
KeyGreater(a, b) ==
    \/ Get(a, "urgency", 0) > Get(b, "urgency", 0)
    \/ Get(a, "urgency", 0) = Get(b, "urgency", 0) /\ Get(a, "score", 0) > Get(b, "score", 0)

\* list.sort(key, reverse=True): stable, equal keys keep their order
RECURSIVE SortDesc(_)
SortDesc(s) ==
    IF s = <<>> THEN <<>>
    ELSE LET init == SortDesc(SubSeq(s, 1, Len(s) - 1))
             x    == s[Len(s)]
             \* x goes after every element that is not smaller than it
             k    == Cardinality({i \in 1..Len(init) : ~KeyGreater(x, init[i])})
         IN  SubSeq(init, 1, k) \o <<x>> \o SubSeq(init, k + 1, Len(init))

\* the two candidate lists (lines 914-917)
InImmediate(v, imin) == Get(v, "urgency", 0) >= imin

\* the maybe condition as an intersection
InMaybeBoth(v, smin, smax) ==
    /\ Get(v, "urgency", 0) = 3
    /\ (smin <= Get(v, "score", 0) /\ Get(v, "score", 0) <= smax)

InMaybe(v, smin, smax) ==
    \/ Get(v, "urgency", 0) = 3
    \/ (smin <= Get(v, "score", 0) /\ Get(v, "score", 0) <= smax)

\* the de-duplication (lines 920-921)
immediate_urls(imm) == {imm[i].url : i \in 1..Len(imm)}

\* de-duplication by value equality of the listing instead of its URL
DedupByValue(maybe, imm) == SelectSeq(maybe, LAMBDA v : v \notin Range(imm))

Dedup(maybe, imm) == SelectSeq(maybe, LAMBDA v : v.url \notin immediate_urls(imm))

\* the batches a campaign's pages may give: a head and fillers; the later
\* campaigns give at most one listing
FillShapes ==
    { <<"plain", 0, 0>>, <<"plain", 4, 0>>, <<"strong", 6, 0>>,
      <<"plain", MinValid - 1, MaxFill - MinValid>>,
      <<"strong", MaxFill - 1, 0>> }

\* heads: up to two listings of the pool, in pool order
MainHeads ==
    {<<>>} \cup {<<ListingPool[a]>> : a \in 1..Len(ListingPool)}
           \cup {<<ListingPool[ab[1]], ListingPool[ab[2]]>> :
                     ab \in {x \in (1..Len(ListingPool)) \X (1..Len(ListingPool)) :
                                x[1] <= x[2]}}

RawBatches(c) ==
    IF c = 1
    THEN {Batch(h, sh[1], sh[2], sh[3]) : h \in MainHeads, sh \in FillShapes}
    ELSE {h \in MainHeads : Len(h) <= 1}

Init ==
    /\ pc = "fetch"
    /\ ClsIdle
    /\ FetchIdle
    /\ notified_main = <<>>
    /\ notified_maybe = <<>>
    /\ ci = 1
    /\ all_vehicles = <<>>
    /\ immediate_items = <<>>
    /\ maybe_items = <<>>
    /\ \E env \in {<<4, 700, 849>>, <<3, 600, 900>>} :
          /\ immediate_min = env[1]
          /\ maybe_score_min = env[2]
          /\ maybe_score_max = env[3]
    /\ current_year \in CurrentYears
    /\ config = <<>>
    /\ vehicles = <<>>
    /\ market_stats = <<>>
    /\ predictions = <<>>
    /\ item = <<>>
    /\ fperr = 0
    /\ fit_log = <<>>

\* where the campaign loop goes after campaign c
AfterCampaign(c) == IF c < Len(Campaigns) THEN "fetch" ELSE "sort"

\* lines 788-853: the pages of campaign ci are fetched, parsed and filtered
FetchCampaign ==
    /\ pc = "fetch"
    /\ config' = Campaigns[ci]
    /\ \E raw \in RawBatches(ci), detail \in DetailOutcomes :
          vehicles' = FilterItems(raw, Campaigns[ci], detail)
    /\ IF vehicles' = <<>>
       THEN pc' = AfterCampaign(ci) /\ ci' = ci + 1
       ELSE pc' = "stats" /\ ci' = ci
    /\ UNCHANGED <<clsVars, notifyVars, fetchVars, market_stats, predictions, current_year, callVars, envVars,
                   all_vehicles, immediate_items, maybe_items>>

\* lines 855-867
ComputeStats ==
    /\ pc = "stats"
    /\ market_stats' = MarketStats(vehicles)
    /\ pc' = "predict"
    /\ UNCHANGED <<clsVars, notifyVars, fetchVars, config, vehicles, predictions, current_year, callVars, envVars, mainVars>>

\* lines 869-874: predictions are asked for and attached; a None among them
\* makes np.isnan raise, which nothing catches
Predict ==
    /\ pc = "predict"
    /\ IF Len(vehicles) >= PredictMin
       THEN \E s \in Perms(Len(valid_indices(vehicles))),
               fail \in 0..(Len(quantiles) * MaxSplits),
               pv \in PredValues :
               /\ predictions' = predict_quantiles(vehicles, s, fail, pv).result
               /\ IF AttachRaises(vehicles, predictions')
                  THEN pc' = "crashed" /\ vehicles' = vehicles
                  ELSE pc' = "score" /\ vehicles' = AttachPredictions(vehicles, predictions')
       ELSE pc' = "score" /\ UNCHANGED <<vehicles, predictions>>
    /\ UNCHANGED <<clsVars, notifyVars, fetchVars, config, market_stats, current_year, callVars, envVars, mainVars>>

\* lines 876-880: every vehicle is scored, the campaign joins all_vehicles
ScoreVehicles ==
    /\ pc = "score"
    /\ \E fp \in FpErrs :
          vehicles' = [i \in 1..Len(vehicles) |->
                          compute_enhanced_score(vehicles[i], market_stats, config,
                                                 current_year, fp)]
    /\ all_vehicles' = all_vehicles \o vehicles'
    /\ pc' = AfterCampaign(ci)
    /\ ci' = ci + 1
    /\ UNCHANGED <<clsVars, notifyVars, fetchVars, config, market_stats, predictions, current_year, callVars, envVars,
                   immediate_items, maybe_items>>

\* line 883
SortAll ==
    /\ pc = "sort"
    /\ all_vehicles' = SortDesc(all_vehicles)
    /\ pc' = "route"
    /\ UNCHANGED <<clsVars, notifyVars, fetchVars, config, market_stats, vehicles, predictions, current_year, callVars,
                   envVars, ci, immediate_items, maybe_items>>

\* lines 914-921
Route ==
    /\ pc = "route"
    /\ immediate_items' = SelectSeq(all_vehicles, LAMBDA v : InImmediate(v, immediate_min))
    /\ maybe_items' =
          Dedup(SelectSeq(all_vehicles,
                          LAMBDA v : InMaybe(v, maybe_score_min, maybe_score_max)),
                immediate_items')
    /\ pc' = "done"
    /\ UNCHANGED <<clsVars, notifyVars, fetchVars, config, market_stats, vehicles, predictions, current_year, callVars,
                   envVars, ci, all_vehicles>>

\* the number of items of a bucket the notifier is given (lines 925-926)
NotifyMax == 5

\* the last NotifyMax items of a bucket instead of the first
TruncateTail(items) == SubSeq(items, Max(1, Len(items) - NotifyMax + 1), Len(items))

\* items[:5]
Truncate(items) == SubSeq(items, 1, Min(Len(items), NotifyMax))

\* lines 923-926: both buckets are handed to send_discord_notification
Notify ==
    /\ pc = "done"
    /\ notified_main' = Truncate(immediate_items)
    /\ notified_maybe' = Truncate(maybe_items)
    /\ pc' = "notified"
    /\ UNCHANGED <<clsVars, fetchVars, config, market_stats, vehicles, predictions, current_year,
                   callVars, envVars, mainVars>>

Next ==
    \/ FetchCampaign
    \/ ComputeStats
    \/ Predict
    \/ ScoreVehicles
    \/ SortAll
    \/ Route
    \/ Notify

Spec == Init /\ [][Next]_vars

(***************************************************************************)
(* VehicleClassifier.  A text is a sequence of glyphs.  A glyph is a       *)
(* record [b, f]: b is the character in its NFKC upper-case form ("H",     *)
(* "4", "-", " ", or "uXXXX" for the katakana or kanji of that code        *)
(* point) and f is the form this occurrence is written in:                 *)
(*   "N"          the form b names (ASCII capital, ASCII digit, full-width *)
(*                katakana, kanji)                                         *)
(*   "lower"      ASCII small letter                                       *)
(*   "wide"       full-width capital letter, digit, hyphen or space        *)
(*   "widelower"  full-width small letter                                  *)
(*   "narrow"     half-width katakana (with its voicing mark, if any)      *)
(*   "square"     the single character U+33C4 (square CC), whose NFKC      *)
(*                form is the two small letters "cc"                       *)
(* str.upper() and normalize("NFKC", .) are computed on the forms, so a    *)
(* text and its normal form are different sequences.                       *)
(***************************************************************************)
Letters ==
    {"A", "B", "C", "D", "E", "F", "G", "H", "I", "J", "K", "L", "M",
     "N", "O", "P", "Q", "R", "S", "T", "U", "V", "W", "X", "Y", "Z"}

Glyph(b, f) == [b |-> b, f |-> f]

\* the string whose characters are bs, each in the form its name has
S(bs) == [i \in DOMAIN bs |-> Glyph(bs[i], "N")]

\* the string whose characters are bs, those at the positions low in small letters
SL(bs, low) == [i \in DOMAIN bs |-> Glyph(bs[i], IF i \in low THEN "lower" ELSE "N")]

Space == Glyph(" ", "N")

SquareCC == Glyph("CC", "square")

\* str.upper() on one character
UpperGlyph(g) ==
    CASE g.f = "lower" -> Glyph(g.b, "N")
      [] g.f = "widelower" -> Glyph(g.b, "wide")
      [] OTHER -> g

\* str.upper()
upper(s) == [i \in DOMAIN s |-> UpperGlyph(s[i])]

\* normalize("NFKC", .) on one character: the characters it becomes
NFKCGlyph(g) ==
    CASE g.f = "wide" -> <<Glyph(g.b, "N")>>
      [] g.f = "widelower" -> <<Glyph(g.b, "lower")>>
      [] g.f = "narrow" -> <<Glyph(g.b, "N")>>
      [] g.f = "square" -> <<Glyph("C", "lower"), Glyph("C", "lower")>>
      [] OTHER -> <<g>>

RECURSIVE Flatten(_)
Flatten(ss) == IF ss = <<>> THEN <<>> ELSE Head(ss) \o Flatten(Tail(ss))

\* normalize("NFKC", s)
normalize(s) == Flatten([i \in DOMAIN s |-> NFKCGlyph(s[i])])

\* sub in s (Python's substring test)
Contains(s, sub) ==
    \E i \in 1..(Len(s) - Len(sub) + 1) : SubSeq(s, i, i + Len(sub) - 1) = sub

\* re.compile(re.escape(name), re.IGNORECASE).search(s)
SearchIgnoreCase(name, s) == Contains(upper(s), upper(name))

SUV_DATABASE ==
    <<
       \* ハリアー (トヨタ ハリアー) HARRIER / harrier
       [key |-> S(<<"u30CF", "u30EA", "u30A2", "u30FC">>),
        maker |-> S(<<"u30C8", "u30E8", "u30BF">>),
        model |-> S(<<"u30CF", "u30EA", "u30A2", "u30FC">>),
        name_variants |-> {S(<<"H", "A", "R", "R", "I", "E", "R">>),
                           SL(<<"H", "A", "R", "R", "I", "E", "R">>, {1, 2, 3, 4, 5, 6, 7})},
        is_suv |-> TRUE, is_kei |-> FALSE,
        body_types |-> {S(<<"S", "U", "V">>),
                        S(<<"u30AF", "u30ED", "u30B9", "u30AA", "u30FC", "u30D0", "u30FC", "S", "U", "V">>)}],
       \* RAV4 (トヨタ RAV4) ラヴフォー / ラブフォー
       [key |-> S(<<"R", "A", "V", "4">>),
        maker |-> S(<<"u30C8", "u30E8", "u30BF">>),
        model |-> S(<<"R", "A", "V", "4">>),
        name_variants |-> {S(<<"u30E9", "u30F4", "u30D5", "u30A9", "u30FC">>),
                           S(<<"u30E9", "u30D6", "u30D5", "u30A9", "u30FC">>)},
        is_suv |-> TRUE, is_kei |-> FALSE,
        body_types |-> {S(<<"S", "U", "V">>),
                        S(<<"u30AF", "u30ED", "u30B9", "u30AA", "u30FC", "u30D0", "u30FC", "S", "U", "V">>)}],
       \* ランドクルーザー (トヨタ ランドクルーザー) LANDCRUISER / ランクル / LC
       [key |-> S(<<"u30E9", "u30F3", "u30C9", "u30AF", "u30EB", "u30FC", "u30B6", "u30FC">>),
        maker |-> S(<<"u30C8", "u30E8", "u30BF">>),
        model |-> S(<<"u30E9", "u30F3", "u30C9", "u30AF", "u30EB", "u30FC", "u30B6", "u30FC">>),
        name_variants |-> {S(<<"L", "A", "N", "D", "C", "R", "U", "I", "S", "E", "R">>),
                           S(<<"u30E9", "u30F3", "u30AF", "u30EB">>),
                           S(<<"L", "C">>)},
        is_suv |-> TRUE, is_kei |-> FALSE,
        body_types |-> {S(<<"S", "U", "V">>),
                        S(<<"u30AF", "u30ED", "u30AB", "u30F3">>)}],
       \* ランドクルーザープラド (トヨタ プラド) PRADO / ランクルプラド
       [key |-> S(<<"u30E9", "u30F3", "u30C9", "u30AF", "u30EB", "u30FC", "u30B6", "u30FC", "u30D7", "u30E9", "u30C9">>),
        maker |-> S(<<"u30C8", "u30E8", "u30BF">>),
        model |-> S(<<"u30D7", "u30E9", "u30C9">>),
        name_variants |-> {S(<<"P", "R", "A", "D", "O">>),
                           S(<<"u30E9", "u30F3", "u30AF", "u30EB", "u30D7", "u30E9", "u30C9">>)},
        is_suv |-> TRUE, is_kei |-> FALSE,
        body_types |-> {S(<<"S", "U", "V">>),
                        S(<<"u30AF", "u30ED", "u30AB", "u30F3">>)}],
       \* C-HR (トヨタ C-HR) CHR / chr
       [key |-> S(<<"C", "-", "H", "R">>),
        maker |-> S(<<"u30C8", "u30E8", "u30BF">>),
        model |-> S(<<"C", "-", "H", "R">>),
        name_variants |-> {S(<<"C", "H", "R">>),
                           SL(<<"C", "H", "R">>, {1, 2, 3})},
        is_suv |-> TRUE, is_kei |-> FALSE,
        body_types |-> {S(<<"S", "U", "V">>),
                        S(<<"u30B3", "u30F3", "u30D1", "u30AF", "u30C8", "S", "U", "V">>)}],
       \* カローラクロス (トヨタ カローラクロス) COROLLA CROSS
       [key |-> S(<<"u30AB", "u30ED", "u30FC", "u30E9", "u30AF", "u30ED", "u30B9">>),
        maker |-> S(<<"u30C8", "u30E8", "u30BF">>),
        model |-> S(<<"u30AB", "u30ED", "u30FC", "u30E9", "u30AF", "u30ED", "u30B9">>),
        name_variants |-> {S(<<"C", "O", "R", "O", "L", "L", "A", " ", "C", "R", "O", "S", "S">>)},
        is_suv |-> TRUE, is_kei |-> FALSE,
        body_types |-> {S(<<"S", "U", "V">>)}],
       \* ヤリスクロス (トヨタ ヤリスクロス) YARIS CROSS
       [key |-> S(<<"u30E4", "u30EA", "u30B9", "u30AF", "u30ED", "u30B9">>),
        maker |-> S(<<"u30C8", "u30E8", "u30BF">>),
        model |-> S(<<"u30E4", "u30EA", "u30B9", "u30AF", "u30ED", "u30B9">>),
        name_variants |-> {S(<<"Y", "A", "R", "I", "S", " ", "C", "R", "O", "S", "S">>)},
        is_suv |-> TRUE, is_kei |-> FALSE,
        body_types |-> {S(<<"S", "U", "V">>),
                        S(<<"u30B3", "u30F3", "u30D1", "u30AF", "u30C8", "S", "U", "V">>)}],
       \* ライズ (トヨタ ライズ) RAIZE
       [key |-> S(<<"u30E9", "u30A4", "u30BA">>),
        maker |-> S(<<"u30C8", "u30E8", "u30BF">>),
        model |-> S(<<"u30E9", "u30A4", "u30BA">>),
        name_variants |-> {S(<<"R", "A", "I", "Z", "E">>)},
        is_suv |-> TRUE, is_kei |-> FALSE,
        body_types |-> {S(<<"S", "U", "V">>),
                        S(<<"u30B3", "u30F3", "u30D1", "u30AF", "u30C8", "S", "U", "V">>)}],
       \* ハイラックス (トヨタ ハイラックス) HILUX
       [key |-> S(<<"u30CF", "u30A4", "u30E9", "u30C3", "u30AF", "u30B9">>),
        maker |-> S(<<"u30C8", "u30E8", "u30BF">>),
        model |-> S(<<"u30CF", "u30A4", "u30E9", "u30C3", "u30AF", "u30B9">>),
        name_variants |-> {S(<<"H", "I", "L", "U", "X">>)},
        is_suv |-> TRUE, is_kei |-> FALSE,
        body_types |-> {S(<<"u30D4", "u30C3", "u30AF", "u30A2", "u30C3", "u30D7", "u30C8", "u30E9", "u30C3", "u30AF">>),
                        S(<<"S", "U", "V">>)}],
       \* エクストレイル (日産 エクストレイル) X-TRAIL / XTRAIL
       [key |-> S(<<"u30A8", "u30AF", "u30B9", "u30C8", "u30EC", "u30A4", "u30EB">>),
        maker |-> S(<<"u65E5", "u7523">>),
        model |-> S(<<"u30A8", "u30AF", "u30B9", "u30C8", "u30EC", "u30A4", "u30EB">>),
        name_variants |-> {S(<<"X", "-", "T", "R", "A", "I", "L">>),
                           S(<<"X", "T", "R", "A", "I", "L">>)},
        is_suv |-> TRUE, is_kei |-> FALSE,
        body_types |-> {S(<<"S", "U", "V">>)}],
       \* キックス (日産 キックス) KICKS / e-POWER
       [key |-> S(<<"u30AD", "u30C3", "u30AF", "u30B9">>),
        maker |-> S(<<"u65E5", "u7523">>),
        model |-> S(<<"u30AD", "u30C3", "u30AF", "u30B9">>),
        name_variants |-> {S(<<"K", "I", "C", "K", "S">>),
                           SL(<<"E", "-", "P", "O", "W", "E", "R">>, {1})},
        is_suv |-> TRUE, is_kei |-> FALSE,
        body_types |-> {S(<<"S", "U", "V">>),
                        S(<<"u30B3", "u30F3", "u30D1", "u30AF", "u30C8", "S", "U", "V">>)}],
       \* ジューク (日産 ジューク) JUKE
       [key |-> S(<<"u30B8", "u30E5", "u30FC", "u30AF">>),
        maker |-> S(<<"u65E5", "u7523">>),
        model |-> S(<<"u30B8", "u30E5", "u30FC", "u30AF">>),
        name_variants |-> {S(<<"J", "U", "K", "E">>)},
        is_suv |-> TRUE, is_kei |-> FALSE,
        body_types |-> {S(<<"S", "U", "V">>),
                        S(<<"u30B3", "u30F3", "u30D1", "u30AF", "u30C8", "S", "U", "V">>)}],
       \* ムラーノ (日産 ムラーノ) MURANO
       [key |-> S(<<"u30E0", "u30E9", "u30FC", "u30CE">>),
        maker |-> S(<<"u65E5", "u7523">>),
        model |-> S(<<"u30E0", "u30E9", "u30FC", "u30CE">>),
        name_variants |-> {S(<<"M", "U", "R", "A", "N", "O">>)},
        is_suv |-> TRUE, is_kei |-> FALSE,
        body_types |-> {S(<<"S", "U", "V">>)}],
       \* テラノ (日産 テラノ) TERRANO
       [key |-> S(<<"u30C6", "u30E9", "u30CE">>),
        maker |-> S(<<"u65E5", "u7523">>),
        model |-> S(<<"u30C6", "u30E9", "u30CE">>),
        name_variants |-> {S(<<"T", "E", "R", "R", "A", "N", "O">>)},
        is_suv |-> TRUE, is_kei |-> FALSE,
        body_types |-> {S(<<"S", "U", "V">>),
                        S(<<"u30AF", "u30ED", "u30AB", "u30F3">>)}],
       \* アリア (日産 アリア) ARIYA
       [key |-> S(<<"u30A2", "u30EA", "u30A2">>),
        maker |-> S(<<"u65E5", "u7523">>),
        model |-> S(<<"u30A2", "u30EA", "u30A2">>),
        name_variants |-> {S(<<"A", "R", "I", "Y", "A">>)},
        is_suv |-> TRUE, is_kei |-> FALSE,
        body_types |-> {S(<<"S", "U", "V">>),
                        S(<<"u96FB", "u6C17", "u81EA", "u52D5", "u8ECA">>)}],
       \* ヴェゼル (ホンダ ヴェゼル) VEZEL / ベゼル
       [key |-> S(<<"u30F4", "u30A7", "u30BC", "u30EB">>),
        maker |-> S(<<"u30DB", "u30F3", "u30C0">>),
        model |-> S(<<"u30F4", "u30A7", "u30BC", "u30EB">>),
        name_variants |-> {S(<<"V", "E", "Z", "E", "L">>),
                           S(<<"u30D9", "u30BC", "u30EB">>)},
        is_suv |-> TRUE, is_kei |-> FALSE,
        body_types |-> {S(<<"S", "U", "V">>),
                        S(<<"u30B3", "u30F3", "u30D1", "u30AF", "u30C8", "S", "U", "V">>)}],
       \* CR-V (ホンダ CR-V) CRV / シーアールブイ
       [key |-> S(<<"C", "R", "-", "V">>),
        maker |-> S(<<"u30DB", "u30F3", "u30C0">>),
        model |-> S(<<"C", "R", "-", "V">>),
        name_variants |-> {S(<<"C", "R", "V">>),
                           S(<<"u30B7", "u30FC", "u30A2", "u30FC", "u30EB", "u30D6", "u30A4">>)},
        is_suv |-> TRUE, is_kei |-> FALSE,
        body_types |-> {S(<<"S", "U", "V">>)}],
       \* ZR-V (ホンダ ZR-V) ZRV
       [key |-> S(<<"Z", "R", "-", "V">>),
        maker |-> S(<<"u30DB", "u30F3", "u30C0">>),
        model |-> S(<<"Z", "R", "-", "V">>),
        name_variants |-> {S(<<"Z", "R", "V">>)},
        is_suv |-> TRUE, is_kei |-> FALSE,
        body_types |-> {S(<<"S", "U", "V">>)}],
       \* CX-3 (マツダ CX-3) cx3 / シーエックススリー
       [key |-> S(<<"C", "X", "-", "3">>),
        maker |-> S(<<"u30DE", "u30C4", "u30C0">>),
        model |-> S(<<"C", "X", "-", "3">>),
        name_variants |-> {SL(<<"C", "X", "3">>, {1, 2}),
                           S(<<"u30B7", "u30FC", "u30A8", "u30C3", "u30AF", "u30B9", "u30B9", "u30EA", "u30FC">>)},
        is_suv |-> TRUE, is_kei |-> FALSE,
        body_types |-> {S(<<"S", "U", "V">>),
                        S(<<"u30B3", "u30F3", "u30D1", "u30AF", "u30C8", "S", "U", "V">>)}],
       \* CX-30 (マツダ CX-30) cx30 / シーエックスサーティー
       [key |-> S(<<"C", "X", "-", "3", "0">>),
        maker |-> S(<<"u30DE", "u30C4", "u30C0">>),
        model |-> S(<<"C", "X", "-", "3", "0">>),
        name_variants |-> {SL(<<"C", "X", "3", "0">>, {1, 2}),
                           S(<<"u30B7", "u30FC", "u30A8", "u30C3", "u30AF", "u30B9", "u30B5", "u30FC", "u30C6", "u30A3", "u30FC">>)},
        is_suv |-> TRUE, is_kei |-> FALSE,
        body_types |-> {S(<<"S", "U", "V">>)}],
       \* CX-5 (マツダ CX-5) cx5 / シーエックスファイブ
       [key |-> S(<<"C", "X", "-", "5">>),
        maker |-> S(<<"u30DE", "u30C4", "u30C0">>),
        model |-> S(<<"C", "X", "-", "5">>),
        name_variants |-> {SL(<<"C", "X", "5">>, {1, 2}),
                           S(<<"u30B7", "u30FC", "u30A8", "u30C3", "u30AF", "u30B9", "u30D5", "u30A1", "u30A4", "u30D6">>)},
        is_suv |-> TRUE, is_kei |-> FALSE,
        body_types |-> {S(<<"S", "U", "V">>)}],
       \* CX-8 (マツダ CX-8) cx8 / シーエックスエイト
       [key |-> S(<<"C", "X", "-", "8">>),
        maker |-> S(<<"u30DE", "u30C4", "u30C0">>),
        model |-> S(<<"C", "X", "-", "8">>),
        name_variants |-> {SL(<<"C", "X", "8">>, {1, 2}),
                           S(<<"u30B7", "u30FC", "u30A8", "u30C3", "u30AF", "u30B9", "u30A8", "u30A4", "u30C8">>)},
        is_suv |-> TRUE, is_kei |-> FALSE,
        body_types |-> {S(<<"S", "U", "V">>),
                        S(<<"3", "u5217", "u30B7", "u30FC", "u30C8">>)}],
       \* CX-60 (マツダ CX-60) cx60
       [key |-> S(<<"C", "X", "-", "6", "0">>),
        maker |-> S(<<"u30DE", "u30C4", "u30C0">>),
        model |-> S(<<"C", "X", "-", "6", "0">>),
        name_variants |-> {SL(<<"C", "X", "6", "0">>, {1, 2})},
        is_suv |-> TRUE, is_kei |-> FALSE,
        body_types |-> {S(<<"S", "U", "V">>)}],
       \* MX-30 (マツダ MX-30) mx30
       [key |-> S(<<"M", "X", "-", "3", "0">>),
        maker |-> S(<<"u30DE", "u30C4", "u30C0">>),
        model |-> S(<<"M", "X", "-", "3", "0">>),
        name_variants |-> {SL(<<"M", "X", "3", "0">>, {1, 2})},
        is_suv |-> TRUE, is_kei |-> FALSE,
        body_types |-> {S(<<"S", "U", "V">>),
                        S(<<"u96FB", "u52D5">>)}],
       \* フォレスター (スバル フォレスター) FORESTER
       [key |-> S(<<"u30D5", "u30A9", "u30EC", "u30B9", "u30BF", "u30FC">>),
        maker |-> S(<<"u30B9", "u30D0", "u30EB">>),
        model |-> S(<<"u30D5", "u30A9", "u30EC", "u30B9", "u30BF", "u30FC">>),
        name_variants |-> {S(<<"F", "O", "R", "E", "S", "T", "E", "R">>)},
        is_suv |-> TRUE, is_kei |-> FALSE,
        body_types |-> {S(<<"S", "U", "V">>)}],
       \* XV (スバル XV) CROSSTREK / クロストレック
       [key |-> S(<<"X", "V">>),
        maker |-> S(<<"u30B9", "u30D0", "u30EB">>),
        model |-> S(<<"X", "V">>),
        name_variants |-> {S(<<"C", "R", "O", "S", "S", "T", "R", "E", "K">>),
                           S(<<"u30AF", "u30ED", "u30B9", "u30C8", "u30EC", "u30C3", "u30AF">>)},
        is_suv |-> TRUE, is_kei |-> FALSE,
        body_types |-> {S(<<"S", "U", "V">>),
                        S(<<"u30AF", "u30ED", "u30B9", "u30AA", "u30FC", "u30D0", "u30FC">>)}],
       \* レガシィアウトバック (スバル アウトバック) OUTBACK / レガシィ
       [key |-> S(<<"u30EC", "u30AC", "u30B7", "u30A3", "u30A2", "u30A6", "u30C8", "u30D0", "u30C3", "u30AF">>),
        maker |-> S(<<"u30B9", "u30D0", "u30EB">>),
        model |-> S(<<"u30A2", "u30A6", "u30C8", "u30D0", "u30C3", "u30AF">>),
        name_variants |-> {S(<<"O", "U", "T", "B", "A", "C", "K">>),
                           S(<<"u30EC", "u30AC", "u30B7", "u30A3">>)},
        is_suv |-> TRUE, is_kei |-> FALSE,
        body_types |-> {S(<<"S", "U", "V">>),
                        S(<<"u30AF", "u30ED", "u30B9", "u30AA", "u30FC", "u30D0", "u30FC">>)}],
       \* アセント (スバル アセント) ASCENT
       [key |-> S(<<"u30A2", "u30BB", "u30F3", "u30C8">>),
        maker |-> S(<<"u30B9", "u30D0", "u30EB">>),
        model |-> S(<<"u30A2", "u30BB", "u30F3", "u30C8">>),
        name_variants |-> {S(<<"A", "S", "C", "E", "N", "T">>)},
        is_suv |-> TRUE, is_kei |-> FALSE,
        body_types |-> {S(<<"S", "U", "V">>),
                        S(<<"3", "u5217", "u30B7", "u30FC", "u30C8">>)}],
       \* アウトランダー (三菱 アウトランダー) OUTLANDER / PHEV
       [key |-> S(<<"u30A2", "u30A6", "u30C8", "u30E9", "u30F3", "u30C0", "u30FC">>),
        maker |-> S(<<"u4E09", "u83F1">>),
        model |-> S(<<"u30A2", "u30A6", "u30C8", "u30E9", "u30F3", "u30C0", "u30FC">>),
        name_variants |-> {S(<<"O", "U", "T", "L", "A", "N", "D", "E", "R">>),
                           S(<<"P", "H", "E", "V">>)},
        is_suv |-> TRUE, is_kei |-> FALSE,
        body_types |-> {S(<<"S", "U", "V">>)}],
       \* エクリプスクロス (三菱 エクリプスクロス) ECLIPSE CROSS
       [key |-> S(<<"u30A8", "u30AF", "u30EA", "u30D7", "u30B9", "u30AF", "u30ED", "u30B9">>),
        maker |-> S(<<"u4E09", "u83F1">>),
        model |-> S(<<"u30A8", "u30AF", "u30EA", "u30D7", "u30B9", "u30AF", "u30ED", "u30B9">>),
        name_variants |-> {S(<<"E", "C", "L", "I", "P", "S", "E", " ", "C", "R", "O", "S", "S">>)},
        is_suv |-> TRUE, is_kei |-> FALSE,
        body_types |-> {S(<<"S", "U", "V">>)}],
       \* RVR (三菱 RVR) アールブイアール
       [key |-> S(<<"R", "V", "R">>),
        maker |-> S(<<"u4E09", "u83F1">>),
        model |-> S(<<"R", "V", "R">>),
        name_variants |-> {S(<<"u30A2", "u30FC", "u30EB", "u30D6", "u30A4", "u30A2", "u30FC", "u30EB">>)},
        is_suv |-> TRUE, is_kei |-> FALSE,
        body_types |-> {S(<<"S", "U", "V">>),
                        S(<<"u30B3", "u30F3", "u30D1", "u30AF", "u30C8", "S", "U", "V">>)}],
       \* パジェロ (三菱 パジェロ) PAJERO
       [key |-> S(<<"u30D1", "u30B8", "u30A7", "u30ED">>),
        maker |-> S(<<"u4E09", "u83F1">>),
        model |-> S(<<"u30D1", "u30B8", "u30A7", "u30ED">>),
        name_variants |-> {S(<<"P", "A", "J", "E", "R", "O">>)},
        is_suv |-> TRUE, is_kei |-> FALSE,
        body_types |-> {S(<<"S", "U", "V">>),
                        S(<<"u30AF", "u30ED", "u30AB", "u30F3">>)}],
       \* ジムニー (スズキ ジムニー) JIMNY
       [key |-> S(<<"u30B8", "u30E0", "u30CB", "u30FC">>),
        maker |-> S(<<"u30B9", "u30BA", "u30AD">>),
        model |-> S(<<"u30B8", "u30E0", "u30CB", "u30FC">>),
        name_variants |-> {S(<<"J", "I", "M", "N", "Y">>)},
        is_suv |-> TRUE, is_kei |-> TRUE,
        body_types |-> {S(<<"u8EFD", "u81EA", "u52D5", "u8ECA">>),
                        S(<<"u30AF", "u30ED", "u30AB", "u30F3">>)}],
       \* ジムニーシエラ (スズキ ジムニーシエラ) JIMNY SIERRA
       [key |-> S(<<"u30B8", "u30E0", "u30CB", "u30FC", "u30B7", "u30A8", "u30E9">>),
        maker |-> S(<<"u30B9", "u30BA", "u30AD">>),
        model |-> S(<<"u30B8", "u30E0", "u30CB", "u30FC", "u30B7", "u30A8", "u30E9">>),
        name_variants |-> {S(<<"J", "I", "M", "N", "Y", " ", "S", "I", "E", "R", "R", "A">>)},
        is_suv |-> TRUE, is_kei |-> FALSE,
        body_types |-> {S(<<"S", "U", "V">>),
                        S(<<"u30AF", "u30ED", "u30AB", "u30F3">>)}],
       \* エスクード (スズキ エスクード) ESCUDO
       [key |-> S(<<"u30A8", "u30B9", "u30AF", "u30FC", "u30C9">>),
        maker |-> S(<<"u30B9", "u30BA", "u30AD">>),
        model |-> S(<<"u30A8", "u30B9", "u30AF", "u30FC", "u30C9">>),
        name_variants |-> {S(<<"E", "S", "C", "U", "D", "O">>)},
        is_suv |-> TRUE, is_kei |-> FALSE,
        body_types |-> {S(<<"S", "U", "V">>)}],
       \* クロスビー (スズキ クロスビー) XBEE / CROSSBEE
       [key |-> S(<<"u30AF", "u30ED", "u30B9", "u30D3", "u30FC">>),
        maker |-> S(<<"u30B9", "u30BA", "u30AD">>),
        model |-> S(<<"u30AF", "u30ED", "u30B9", "u30D3", "u30FC">>),
        name_variants |-> {S(<<"X", "B", "E", "E">>),
                           S(<<"C", "R", "O", "S", "S", "B", "E", "E">>)},
        is_suv |-> TRUE, is_kei |-> FALSE,
        body_types |-> {S(<<"S", "U", "V">>),
                        S(<<"u30B3", "u30F3", "u30D1", "u30AF", "u30C8", "S", "U", "V">>)}],
       \* ハスラー (スズキ ハスラー) HUSTLER
       [key |-> S(<<"u30CF", "u30B9", "u30E9", "u30FC">>),
        maker |-> S(<<"u30B9", "u30BA", "u30AD">>),
        model |-> S(<<"u30CF", "u30B9", "u30E9", "u30FC">>),
        name_variants |-> {S(<<"H", "U", "S", "T", "L", "E", "R">>)},
        is_suv |-> FALSE, is_kei |-> TRUE,
        body_types |-> {S(<<"u8EFD", "u81EA", "u52D5", "u8ECA">>),
                        S(<<"u8EFD", "S", "U", "V">>)}],
       \* スペーシアギア (スズキ スペーシアギア) SPACIA GEAR
       [key |-> S(<<"u30B9", "u30DA", "u30FC", "u30B7", "u30A2", "u30AE", "u30A2">>),
        maker |-> S(<<"u30B9", "u30BA", "u30AD">>),
        model |-> S(<<"u30B9", "u30DA", "u30FC", "u30B7", "u30A2", "u30AE", "u30A2">>),
        name_variants |-> {S(<<"S", "P", "A", "C", "I", "A", " ", "G", "E", "A", "R">>)},
        is_suv |-> FALSE, is_kei |-> TRUE,
        body_types |-> {S(<<"u8EFD", "u81EA", "u52D5", "u8ECA">>)}],
       \* タフト (ダイハツ タフト) TAFT
       [key |-> S(<<"u30BF", "u30D5", "u30C8">>),
        maker |-> S(<<"u30C0", "u30A4", "u30CF", "u30C4">>),
        model |-> S(<<"u30BF", "u30D5", "u30C8">>),
        name_variants |-> {S(<<"T", "A", "F", "T">>)},
        is_suv |-> FALSE, is_kei |-> TRUE,
        body_types |-> {S(<<"u8EFD", "u81EA", "u52D5", "u8ECA">>),
                        S(<<"u8EFD", "S", "U", "V">>)}],
       \* ロッキー (ダイハツ ロッキー) ROCKY
       [key |-> S(<<"u30ED", "u30C3", "u30AD", "u30FC">>),
        maker |-> S(<<"u30C0", "u30A4", "u30CF", "u30C4">>),
        model |-> S(<<"u30ED", "u30C3", "u30AD", "u30FC">>),
        name_variants |-> {S(<<"R", "O", "C", "K", "Y">>)},
        is_suv |-> TRUE, is_kei |-> FALSE,
        body_types |-> {S(<<"S", "U", "V">>),
                        S(<<"u30B3", "u30F3", "u30D1", "u30AF", "u30C8", "S", "U", "V">>)}],
       \* テリオスキッド (ダイハツ テリオスキッド) TERIOS KID
       [key |-> S(<<"u30C6", "u30EA", "u30AA", "u30B9", "u30AD", "u30C3", "u30C9">>),
        maker |-> S(<<"u30C0", "u30A4", "u30CF", "u30C4">>),
        model |-> S(<<"u30C6", "u30EA", "u30AA", "u30B9", "u30AD", "u30C3", "u30C9">>),
        name_variants |-> {S(<<"T", "E", "R", "I", "O", "S", " ", "K", "I", "D">>)},
        is_suv |-> FALSE, is_kei |-> TRUE,
        body_types |-> {S(<<"u8EFD", "u81EA", "u52D5", "u8ECA">>)}]
    >>

\* ハスラー, HUSTLER, タフト, TAFT, スペーシアギア, SPACIA GEAR, テリオスキッド, TERIOS KID, キャスト, CAST, アクティバ, ACTIVA, ウェイク, WAKE, 軽自動車, 軽SUV, K-CAR, 660cc, 660CC
KEI_CAR_KEYWORDS ==
    {S(<<"u30CF", "u30B9", "u30E9", "u30FC">>),
     S(<<"H", "U", "S", "T", "L", "E", "R">>),
     S(<<"u30BF", "u30D5", "u30C8">>),
     S(<<"T", "A", "F", "T">>),
     S(<<"u30B9", "u30DA", "u30FC", "u30B7", "u30A2", "u30AE", "u30A2">>),
     S(<<"S", "P", "A", "C", "I", "A", " ", "G", "E", "A", "R">>),
     S(<<"u30C6", "u30EA", "u30AA", "u30B9", "u30AD", "u30C3", "u30C9">>),
     S(<<"T", "E", "R", "I", "O", "S", " ", "K", "I", "D">>),
     S(<<"u30AD", "u30E3", "u30B9", "u30C8">>),
     S(<<"C", "A", "S", "T">>),
     S(<<"u30A2", "u30AF", "u30C6", "u30A3", "u30D0">>),
     S(<<"A", "C", "T", "I", "V", "A">>),
     S(<<"u30A6", "u30A7", "u30A4", "u30AF">>),
     S(<<"W", "A", "K", "E">>),
     S(<<"u8EFD", "u81EA", "u52D5", "u8ECA">>),
     S(<<"u8EFD", "S", "U", "V">>),
     S(<<"K", "-", "C", "A", "R">>),
     SL(<<"6", "6", "0", "C", "C">>, {4, 5}),
     S(<<"6", "6", "0", "C", "C">>)}

\* (軽自動車|軽SUV|660cc|660CC|K-?CAR): the strings the alternation spells
kei_patterns ==
    {S(<<"u8EFD", "u81EA", "u52D5", "u8ECA">>),
     S(<<"u8EFD", "S", "U", "V">>),
     SL(<<"6", "6", "0", "C", "C">>, {4, 5}),
     S(<<"6", "6", "0", "C", "C">>),
     S(<<"K", "-", "C", "A", "R">>),
     S(<<"K", "C", "A", "R">>)}

\* SUV, クロスオーバー, クロカン, 4WD, AWD, オフロード
suv_keywords ==
    {S(<<"S", "U", "V">>),
     S(<<"u30AF", "u30ED", "u30B9", "u30AA", "u30FC", "u30D0", "u30FC">>),
     S(<<"u30AF", "u30ED", "u30AB", "u30F3">>),
     S(<<"4", "W", "D">>),
     S(<<"A", "W", "D">>),
     S(<<"u30AA", "u30D5", "u30ED", "u30FC", "u30C9">>)}

\* the label 軽自動車 of an excluded listing and the label 不明SUV of a generic hit
KeiLabel == S(<<"u8EFD", "u81EA", "u52D5", "u8ECA">>)
UnknownSuvLabel == S(<<"u4E0D", "u660E", "S", "U", "V">>)

\* the katakana of the tables (a glyph "uXXXX" is the character of that code point)
Katakana ==
    {"u30A1", "u30A2", "u30A3", "u30A4", "u30A6", "u30A7", "u30A8", "u30A9", "u30AA",
     "u30AB", "u30AC", "u30AD", "u30AE", "u30AF", "u30B3", "u30B5", "u30B6", "u30B7",
     "u30B8", "u30B9", "u30BA", "u30BB", "u30BC", "u30BF", "u30C0", "u30C3", "u30C4",
     "u30C6", "u30C8", "u30C9", "u30CB", "u30CE", "u30CF", "u30D0", "u30D1", "u30D3",
     "u30D4", "u30D5", "u30D6", "u30D7", "u30D9", "u30DA", "u30DB", "u30DE", "u30E0",
     "u30E3", "u30E4", "u30E5", "u30E8", "u30E9", "u30EA", "u30EB", "u30EC", "u30ED",
     "u30F3", "u30F4", "u30FC"}

\* _compile_patterns: per model that is an SUV and not a kei car, in the
\* order of SUV_DATABASE, the names its pattern alternates over
all_names(model) == {model.key, model.model} \cup model.name_variants

suv_patterns == SelectSeq(SUV_DATABASE, LAMBDA model : model.is_suv /\ ~model.is_kei)

\* pattern.search(s) for the pattern of one model
PatternSearch(model, s) == \E name \in all_names(model) : SearchIgnoreCase(name, s)

\* _is_kei_car
_is_kei_car(s) ==
    \/ \E kw \in KEI_CAR_KEYWORDS : Contains(s, upper(kw))
    \/ \E alt \in kei_patterns : SearchIgnoreCase(alt, s)

\* _calculate_confidence, in hundredths
_calculate_confidence(title, detail, model) ==
    LET maker == IF Contains(title, model.maker) \/ Contains(detail, model.maker)
                 THEN 15 ELSE 0
        body == IF \E body_type \in model.body_types :
                       Contains(title, body_type) \/ Contains(detail, body_type)
                THEN 10 ELSE 0
        variant_count == Cardinality({v \in model.name_variants :
                                         Contains(upper(title), upper(v))})
    IN  Min(70 + maker + body + Min(variant_count * 5, 15), 100)

Result(is_suv, model_name, confidence) ==
    [is_suv |-> is_suv, model_name |-> model_name, confidence |-> confidence]

\* classify: the text handed to _is_kei_car
KeiCheckText(t, d) ==
    normalize(upper(t)) \o <<Space>> \o (IF d # <<>> THEN normalize(upper(d)) ELSE <<>>)

\* classify after the kei check: model detection, then the generic keywords
ClassifySuv(t, d) ==
    LET hits == {k \in DOMAIN suv_patterns :
                    \/ PatternSearch(suv_patterns[k], t)
                    \/ d # <<>> /\ PatternSearch(suv_patterns[k], d)}
        first == CHOOSE k \in hits : \A h \in hits : k <= h
    IN  IF hits # {}
        THEN Result(TRUE, suv_patterns[first].key,
                    _calculate_confidence(t, d, suv_patterns[first]))
        ELSE IF \E kw \in suv_keywords : Contains(normalize(upper(t)), kw)
        THEN Result(TRUE, UnknownSuvLabel, 30)
        ELSE Result(FALSE, <<>>, 0)

\* classify with the kei check made only after the positive matches
classify_suv_first(t, d) ==
    IF ClassifySuv(t, d).is_suv THEN ClassifySuv(t, d)
    ELSE IF _is_kei_car(KeiCheckText(t, d)) THEN Result(FALSE, KeiLabel, 0)
    ELSE ClassifySuv(t, d)

\* classify
classify(t, d) ==
    IF _is_kei_car(KeiCheckText(t, d)) THEN Result(FALSE, KeiLabel, 0)
    ELSE ClassifySuv(t, d)

(***************************************************************************)
(* SpecClassify: one call of classify on a drawn title and detail text.    *)
(* The texts are built from the keywords of the tables in their case and   *)
(* width variants, alone or next to a model name, a generic SUV keyword    *)
(* or a neutral word.                                                      *)
(***************************************************************************)
Digits == {"0", "1", "2", "3", "4", "5", "6", "7", "8", "9"}

\* the characters that have a full-width form
Widenable == Letters \cup Digits \cup {"-", " "}

Styles == {"asis", "upper", "lower", "capital", "wide", "widelower", "narrow"}

LowerGlyph(g) ==
    IF g.b \in Letters /\ g.f = "N" THEN Glyph(g.b, "lower") ELSE g

WideGlyph(g) ==
    IF g.b \in Widenable /\ g.f = "N" THEN Glyph(g.b, "wide")
    ELSE IF g.b \in Widenable /\ g.f = "lower" THEN Glyph(g.b, "widelower")
    ELSE g

NarrowGlyph(g) ==
    IF g.b \in Katakana /\ g.f = "N" THEN Glyph(g.b, "narrow") ELSE g

\* the word w written in a style
Variant(w, style) ==
    CASE style = "asis" -> w
      [] style = "upper" -> upper(w)
      [] style = "lower" -> [i \in DOMAIN w |-> LowerGlyph(w[i])]
      [] style = "capital" ->
            [i \in DOMAIN w |-> IF i = 1 THEN UpperGlyph(w[i]) ELSE LowerGlyph(w[i])]
      [] style = "wide" -> [i \in DOMAIN w |-> WideGlyph(w[i])]
      [] style = "widelower" -> [i \in DOMAIN w |-> WideGlyph(LowerGlyph(w[i]))]
      [] style = "narrow" -> [i \in DOMAIN w |-> NarrowGlyph(w[i])]

\* the keywords of KEI_CAR_KEYWORDS and of the kei pattern
KeiWords == KEI_CAR_KEYWORDS \cup kei_patterns

\* 660 followed by the square CC character
Kei660Square == S(<<"6", "6", "0">>) \o <<SquareCC>>

KeiVariants ==
    {Variant(w, style) : w \in KeiWords, style \in Styles} \cup {Kei660Square}

\* how many models of suv_patterns lend their names to the drawn texts
MaxModels == 2

ModelNames == UNION {all_names(suv_patterns[k]) : k \in 1..MaxModels}

\* NAVI, BROADCAST
NeutralWords ==
    {S(<<"N", "A", "V", "I">>),
     S(<<"B", "R", "O", "A", "D", "C", "A", "S", "T">>)}

Companions ==
    ModelNames \cup suv_keywords \cup NeutralWords
        \cup {Variant(S(<<"S", "U", "V">>), "wide"), suv_patterns[1].maker}

TitleTexts ==
    KeiVariants \cup Companions
        \cup {k \o <<Space>> \o c : k \in KeiVariants, c \in Companions}
        \cup {c \o k : c \in Companions, k \in KeiVariants}

InitClassify ==
    /\ pc = "classify"
    /\ MainIdle
    /\ FetchIdle
    /\ classified = <<>>
    /\ \/ text \in TitleTexts /\ detailed_text = <<>>
       \/ text \in Companions /\ detailed_text \in KeiVariants \cup Companions
    /\ market_stats = <<>>
    /\ config = <<>>
    /\ current_year \in CurrentYears
    /\ vehicles = <<>>
    /\ predictions = <<>>
    /\ item = <<>>
    /\ fperr = 0
    /\ fit_log = <<>>

ClassifyCall ==
    /\ pc = "classify"
    /\ classified' = classify(text, detailed_text)
    /\ pc' = "classified"
    /\ UNCHANGED <<text, detailed_text, notifyVars, fetchVars, market_stats, config, current_year,
                   vehicles, predictions, callVars, envVars, mainVars>>

NextClassify == ClassifyCall

SpecClassify == InitClassify /\ [][NextClassify]_vars

(***************************************************************************)
(* SpecRepair: compute_enhanced_score called on a listing and on the same  *)
(* listing with has_repair set, against the same market_stats and config.  *)
(* vehicles holds the pair; each call has its own float rounding error.    *)
(***************************************************************************)
\* an old listing of very high mileage and low confidence: base score under 25
WornListing ==
    [title |-> {}, url |-> 1, price |-> 2900000, year |-> 2010, mileage |-> 400000,
     confidence |-> 30, has_repair |-> FALSE]

RepairPairs ==
    { <<WithPred(it, hasKey, pred), WithPred(Put(it, "has_repair", TRUE), hasKey, pred)>> :
        it \in {i \in ScoreItems : ~i.has_repair} \cup {WornListing},
        hasKey \in BOOLEAN, pred \in ScorePreds }

InitRepair ==
    /\ pc = "pair"
    /\ MainIdle
    /\ FetchIdle
    /\ ClsIdle
    /\ vehicles \in RepairPairs
    /\ market_stats \in {<<>>} \cup {[median |-> m] : m \in ScoreMedians}
    /\ config = MONITORING_CONFIGS[1]
    /\ current_year \in CurrentYears
    /\ predictions = <<>>
    /\ item = <<>>
    /\ fperr = 0
    /\ fit_log = <<>>

ScorePair ==
    /\ pc = "pair"
    /\ \E fp1 \in FpErrs, fp2 \in FpErrs :
          vehicles' =
              << compute_enhanced_score(vehicles[1], market_stats, config, current_year, fp1),
                 compute_enhanced_score(vehicles[2], market_stats, config, current_year, fp2) >>
    /\ pc' = "paired"
    /\ UNCHANGED <<clsVars, notifyVars, fetchVars, market_stats, config, current_year, predictions,
                   callVars, envVars, mainVars>>

NextRepair == ScorePair

SpecRepair == InitRepair /\ [][NextRepair]_vars

(***************************************************************************)
(* SpecAlias: one call of classify on a title that is exactly one name of  *)
(* a model of suv_patterns (its key, its model name or one of its          *)
(* name_variants), without a detail text.                                  *)
(***************************************************************************)
AliasTitles == UNION {all_names(suv_patterns[k]) : k \in DOMAIN suv_patterns}

InitAlias ==
    /\ pc = "classify"
    /\ MainIdle
    /\ FetchIdle
    /\ classified = <<>>
    /\ text \in AliasTitles
    /\ detailed_text = <<>>
    /\ market_stats = <<>>
    /\ config = <<>>
    /\ current_year \in CurrentYears
    /\ vehicles = <<>>
    /\ predictions = <<>>
    /\ item = <<>>
    /\ fperr = 0
    /\ fit_log = <<>>

NextAlias == ClassifyCall

SpecAlias == InitAlias /\ [][NextAlias]_vars

(***************************************************************************)
(* SpecFilter: the filtering loop of main() run on one parsed listing      *)
(* (item) of a campaign (config); vehicles is the filtered list.           *)
(***************************************************************************)
InitFilter ==
    /\ pc = "filter"
    /\ MainIdle
    /\ FetchIdle
    /\ ClsIdle
    /\ item \in ScoreItems
    /\ config \in Range(Campaigns)
    /\ current_year \in CurrentYears
    /\ vehicles = <<>>
    /\ market_stats = <<>>
    /\ predictions = <<>>
    /\ fperr = 0
    /\ fit_log = <<>>

FilterCall ==
    /\ pc = "filter"
    /\ \E detail \in DetailOutcomes : vehicles' = FilterItems(<<item>>, config, detail)
    /\ pc' = "filtered"
    /\ UNCHANGED <<clsVars, notifyVars, fetchVars, market_stats, config, current_year, predictions,
                   callVars, envVars, mainVars>>

NextFilter == FilterCall

SpecFilter == InitFilter /\ [][NextFilter]_vars

(***************************************************************************)
(* fetch_with_retry(url, max_retries).  fetch_log records, in order, the   *)
(* random wait before a request, the request with its outcome, and the     *)
(* back-off sleep; an exception of requests.get or of raise_for_status is  *)
(* caught by the except clause of the same iteration.                      *)
(***************************************************************************)
\* the largest max_retries drawn
MaxRetries == 3

RetryCounts == -1..MaxRetries

\* r.text of a response that passed raise_for_status
Bodies == {"", "<html>", "<html>listings</html>"}

\* what makes an attempt fail: requests.get raises (line 209) or
\* raise_for_status raises (line 210)
Failures == {"get_raises", "status_raises"}

Event(ev, a, body) == [ev |-> ev, attempt |-> a, body |-> body]

RECURSIVE Pow2(_)
Pow2(n) == IF n = 0 THEN 1 ELSE 2 * Pow2(n - 1)

\* time.sleep(2 ** attempt) (line 216); attempt holds the seconds slept
Backoff(a) == Event("backoff", Pow2(a), "")

\* a handler that never returns: it sleeps also after the last attempt
LastAttemptSleeps(a, retries) == FALSE

\* attempt == max_retries (line 213): the handler returns None
LastAttempt(a, retries) == a = retries

InitFetch ==
    /\ pc = "fetching"
    /\ MainIdle
    /\ ClsIdle
    /\ max_retries \in RetryCounts
    /\ attempt = 0
    /\ fetch_log = <<>>
    /\ fetch_result = <<>>
    /\ market_stats = <<>>
    /\ config = <<>>
    /\ current_year \in CurrentYears
    /\ vehicles = <<>>
    /\ predictions = <<>>
    /\ item = <<>>
    /\ fperr = 0
    /\ fit_log = <<>>

\* lines 206-216: one iteration of the loop
FetchAttempt ==
    /\ pc = "fetching"
    /\ attempt <= max_retries
    /\ \/ \E body \in Bodies :
             /\ fetch_log' = fetch_log \o <<Event("wait", attempt, ""),
                                            Event("ok", attempt, body)>>
             /\ fetch_result' = [text |-> body]
             /\ pc' = "fetched"
             /\ attempt' = attempt
       \/ \E failure \in Failures :
             IF LastAttempt(attempt, max_retries)
             THEN /\ fetch_log' = fetch_log \o <<Event("wait", attempt, ""),
                                                 Event(failure, attempt, "")>>
                  /\ fetch_result' = None
                  /\ pc' = "fetched"
                  /\ attempt' = attempt
             ELSE /\ fetch_log' = fetch_log \o <<Event("wait", attempt, ""),
                                                 Event(failure, attempt, ""),
                                                 Backoff(attempt)>>
                  /\ fetch_result' = fetch_result
                  /\ pc' = "fetching"
                  /\ attempt' = attempt + 1
    /\ UNCHANGED <<clsVars, notifyVars, max_retries, market_stats, config, current_year,
                   vehicles, predictions, callVars, envVars, mainVars>>

\* line 217: the loop ran out (range(max_retries + 1) is empty): return None
FetchLoopEnd ==
    /\ pc = "fetching"
    /\ attempt > max_retries
    /\ fetch_result' = None
    /\ pc' = "fetched"
    /\ UNCHANGED <<clsVars, notifyVars, max_retries, attempt, fetch_log, market_stats,
                   config, current_year, vehicles, predictions, callVars, envVars, mainVars>>

NextFetch ==
    \/ FetchAttempt
    \/ FetchLoopEnd

\* the loop is sequential code: each sleep ends and each request returns or
\* raises within its timeout, so a step that can be taken is taken
SpecFetch == InitFetch /\ [][NextFetch]_vars /\ WF_vars(NextFetch)

(***************************************************************************)
(* Properties                                                              *)
(***************************************************************************)
IsNum(x) == "num" \in DOMAIN x
Urls(b) == {b[i].url : i \in 1..Len(b)}
DefaultThresholds == immediate_min = 4 /\ maybe_score_min = 700 /\ maybe_score_max = 849

\* C1: no URL of the immediate bucket occurs in the maybe bucket, and the maybe
\* bucket keeps every maybe-candidate whose URL is not an immediate URL.
C1_BucketsDisjointByUrl ==
    pc = "done" =>
        /\ Urls(immediate_items) \cap Urls(maybe_items) = {}
        /\ \A k \in 1..Len(all_vehicles) :
              (/\ (all_vehicles[k].urgency = 3
                      \/ (maybe_score_min <= all_vehicles[k].score
                          /\ all_vehicles[k].score <= maybe_score_max))
               /\ all_vehicles[k].url \notin Urls(immediate_items))
              => \E j \in 1..Len(maybe_items) : maybe_items[j] = all_vehicles[k]

\* C1 witness: a maybe-candidate below the immediate threshold is left out of
\* the maybe bucket because another listing with its URL is immediate.
C1_Witness ==
    /\ pc = "done"
    /\ \E k \in 1..Len(all_vehicles) :
          /\ all_vehicles[k].urgency = 3
          /\ all_vehicles[k].urgency < immediate_min
          /\ all_vehicles[k].url \in Urls(immediate_items)
          /\ all_vehicles[k] \notin Range(immediate_items)

\* C2: a listing whose price is unknown has score 0 and urgency 0 and neither
\* price_ratio nor deal_gap, and with the default thresholds it is in no bucket.
C2_UnknownPriceScoresZero ==
    /\ \A k \in 1..Len(all_vehicles) :
          all_vehicles[k].price = 0 =>
              /\ all_vehicles[k].score = 0
              /\ all_vehicles[k].urgency = 0
              /\ "price_ratio" \notin DOMAIN all_vehicles[k]
              /\ "deal_gap" \notin DOMAIN all_vehicles[k]
    /\ (pc = "done" /\ DefaultThresholds) =>
          /\ \A i \in 1..Len(immediate_items) : immediate_items[i].price # 0
          /\ \A j \in 1..Len(maybe_items) : maybe_items[j].price # 0

\* C2 witness: a routed run with the default thresholds, a listing of unknown
\* price among the scored ones, and both buckets filled.
C2_Witness ==
    /\ pc = "done"
    /\ DefaultThresholds
    /\ \E k \in 1..Len(all_vehicles) : all_vehicles[k].price = 0
    /\ immediate_items # <<>>
    /\ maybe_items # <<>>

\* C3: for a listing with a known price, urgency = min(5, step(score) + b1 + b2),
\* b1 = 1 iff price_ratio <= 0.6, b2 = 1 iff deal_gap > 500000.
C3_UrgencyBothBoosts ==
    (pc = "scored" /\ item.price # 0) =>
        LET median4 == Get(market_stats, "median", 0)
            step == UrgencyStep(Clamp(BaseScore(item, market_stats, current_year)), fperr)
            b1   == IF median4 # 0 /\ item.price * 40 <= median4 * 6 THEN 1 ELSE 0
            b2   == IF "deal_gap" \in DOMAIN item /\ item.deal_gap > 500000 THEN 1 ELSE 0
        IN  item.urgency = Min(5, step + b1 + b2)

\* C4: a listing that gets a number gets it from a regressor fitted without it;
\* the held-out folds of a quantile partition the listings of positive price; a
\* listing of unknown price gets no number (None or NaN) and is in no training set.
C4_NoLeakage ==
    pc = "predicted" =>
        LET n     == Len(vehicles)
            valid == {i \in 1..n : vehicles[i].price > 0}
            fitsOf(q) == {f \in 1..Len(fit_log) : fit_log[f].q = q}
        IN  /\ \A q \in DOMAIN predictions : \A i \in 1..n :
                  IsNum(predictions[q][i]) =>
                      /\ \E f \in fitsOf(q) : i \in fit_log[f].val
                      /\ \A f \in fitsOf(q) : i \in fit_log[f].val => i \notin fit_log[f].train
            /\ \A q \in DOMAIN predictions :
                  (\E i \in 1..n : IsNum(predictions[q][i])) =>
                      /\ UNION {fit_log[f].val : f \in fitsOf(q)} = valid
                      /\ \A f, g \in fitsOf(q) :
                            f # g => fit_log[f].val \cap fit_log[g].val = {}
            /\ \A i \in (1..n) \ valid :
                  /\ \A q \in DOMAIN predictions : ~IsNum(predictions[q][i])
                  /\ \A f \in 1..Len(fit_log) : i \notin fit_log[f].train

\* C4 witness: a call that returned numbers for a batch holding a listing of
\* unknown price.
C4_Witness ==
    /\ pc = "predicted"
    /\ \E i \in 1..Len(vehicles) : IsNum(predictions[50][i]) /\ IsNum(predictions[20][i])
    /\ \E i \in 1..Len(vehicles) : vehicles[i].price = 0 /\ predictions[50][i] = NaN

\* C5: below the minimum batch size, or with every price zero, every listing
\* gets None at every quantile, in a result as long as the input.
C5_AbsentOnSmallBatch ==
    (/\ pc = "predicted"
     /\ (Len(vehicles) < MinBatch \/ \A i \in 1..Len(vehicles) : vehicles[i].price = 0)) =>
        /\ DOMAIN predictions = {50, 20}
        /\ \A q \in DOMAIN predictions :
              /\ Len(predictions[q]) = Len(vehicles)
              /\ \A i \in 1..Len(vehicles) : predictions[q][i] = None

\* C5 witness: a batch below the minimum size in which at least 15 prices are
\* valid.
C5_Witness ==
    /\ pc = "predicted"
    /\ Len(vehicles) < MinBatch
    /\ Cardinality({i \in 1..Len(vehicles) : vehicles[i].price > 0}) >= MinValid

\* C6: the run never ends in an uncaught error, and every listing of a finished
\* run has a score and an urgency.
C6_NothingFatal ==
    /\ pc # "crashed"
    /\ pc = "done" =>
          \A k \in 1..Len(all_vehicles) :
              {"score", "urgency"} \subseteq DOMAIN all_vehicles[k]

\* C8: immediate is exactly the listings with urgency >= the minimum; maybe is
\* exactly those with urgency 3 or a score in the interval, minus the listings
\* whose URL is immediate.
C8_BucketMembership ==
    pc = "done" =>
        LET imm == SelectSeq(all_vehicles, LAMBDA v : v.urgency >= immediate_min)
        IN  /\ immediate_items = imm
            /\ maybe_items =
                  SelectSeq(all_vehicles,
                            LAMBDA v : /\ (v.urgency = 3
                                            \/ (maybe_score_min <= v.score
                                                /\ v.score <= maybe_score_max))
                                       /\ v.url \notin Urls(imm))

\* C8 witness: with the default thresholds the maybe bucket holds a listing of
\* urgency 3 whose score is outside the interval.
C8_Witness ==
    /\ pc = "done"
    /\ DefaultThresholds
    /\ immediate_items # <<>>
    /\ \E j \in 1..Len(maybe_items) :
          maybe_items[j].urgency = 3 /\ maybe_items[j].score < maybe_score_min

SortedBy(b, Before(_, _)) == \A i, j \in 1..Len(b) : i < j => ~Before(b[j], b[i])
ScoreBefore(a, b) == a.score > b.score
UrgencyScoreBefore(a, b) ==
    a.urgency > b.urgency \/ (a.urgency = b.urgency /\ a.score > b.score)

\* C9 as stated: both buckets are sorted descending by score.
C9_SortedByScore ==
    pc = "done" =>
        SortedBy(immediate_items, ScoreBefore) /\ SortedBy(maybe_items, ScoreBefore)

\* C9 amended: both buckets are sorted descending by (urgency, score): by
\* urgency first, by score among listings of equal urgency.
C9_SortedByUrgencyThenScore ==
    pc = "done" =>
        /\ SortedBy(immediate_items, UrgencyScoreBefore)
        /\ SortedBy(maybe_items, UrgencyScoreBefore)

\* C9 witness: an immediate bucket in which a listing of higher urgency comes
\* before a listing of higher score.
C9_Witness ==
    /\ pc = "done"
    /\ \E i, j \in 1..Len(immediate_items) :
          /\ i < j
          /\ immediate_items[i].urgency > immediate_items[j].urgency
          /\ immediate_items[i].score < immediate_items[j].score

\* C10: with the market median undefined, a listing of known price under 80% of
\* price_max, with year >= year_min + 2 and mileage under 70% of mileage_max ends
\* with urgency >= 4 and score >= 80.
C10_FallbackStrongCandidate ==
    (/\ pc = "scored"
     /\ "median" \notin DOMAIN market_stats
     /\ item.price # 0
     /\ item.price * 10 < config.price_max * 8
     /\ item.year >= config.year_min + 2
     /\ item.mileage * 10 < config.mileage_max * 7) =>
        item.urgency >= 4 /\ item.score >= 800

\* a keyword of the kei tables occurs in s, in some case or width variant
KeyInText(s) == \E v \in KeiVariants : Contains(s, v)

\* the tuple classify returns for an excluded listing
Excluded == Result(FALSE, KeiLabel, 0)

\* C7: whenever the title or the detail text contains a keyword of
\* KEI_CAR_KEYWORDS or of the kei pattern, in any case or width variant,
\* classify returns (False, kei label, 0.0), also when a model name or a
\* generic SUV keyword is in the text too.
C7_KeiExclusionWins ==
    (pc = "classified" /\ (KeyInText(text) \/ KeyInText(detailed_text)))
        => classified = Excluded

\* a text with a full-width small-letter keyword next to a model name that
\* the model patterns match was classified as excluded
C7_Witness ==
    /\ pc = "classified"
    /\ \E w \in KEI_CAR_KEYWORDS :
          /\ Variant(w, "widelower") # w
          /\ Contains(text, Variant(w, "widelower"))
    /\ \E k \in DOMAIN suv_patterns : PatternSearch(suv_patterns[k], text)
    /\ classified = Excluded

\* the price table as C11 states it (65 in the fourth row), in points; the
\* ratio is 1.0 when the median is undefined
ClaimedPriceBase(price, median4) ==
    IF median4 = 0 THEN 45
    ELSE IF RatioLeq(price, median4, 6) THEN 95
    ELSE IF RatioLeq(price, median4, 7) THEN 85
    ELSE IF RatioLeq(price, median4, 8) THEN 75
    ELSE IF RatioLeq(price, median4, 9) THEN 65
    ELSE IF RatioLeq(price, median4, 10) THEN 45
    ELSE 30

\* C11: the price-ratio base score of a scored listing of known price is the
\* table <= 0.6 -> 95, <= 0.7 -> 85, <= 0.8 -> 75, <= 0.9 -> 65, <= 1.0 -> 45,
\* otherwise 30, with the ratio taken as 1.0 when the median is undefined: the
\* final score is the one the scoring body gives from that base.
C11_PriceRatioTable ==
    (pc = "scored" /\ item.price # 0) =>
        LET median4 == Get(market_stats, "median", 0)
            shift   == ClaimedPriceBase(item.price, median4) - PriceBase(item.price, median4)
            base    == BaseScore(item, market_stats, current_year)
                          + shift * (700 + 3 * item.confidence)
        IN  item.score = RoundDiv(Clamp(base), 100, fperr)

\* C12 as stated: of two listings of known price equal but for the repair flag,
\* the flagged one scores at least 25 points lower.
C12_RepairAtLeast25Lower ==
    (pc = "paired" /\ vehicles[1].price # 0) =>
        vehicles[2].score <= vehicles[1].score - 250

\* C12 amended: the flagged listing never scores higher, and when neither
\* score sits on a bound of [0, 100] (plain below 100, flagged above 0) it is
\* lower by 25 up to the rounding of each score to one decimal (24.9 .. 25.1).
C12_RepairLowerUpToClamp ==
    (pc = "paired" /\ vehicles[1].price # 0) =>
        /\ vehicles[2].score <= vehicles[1].score
        /\ (vehicles[1].score < 1000 /\ vehicles[2].score > 0) =>
              /\ vehicles[1].score - vehicles[2].score >= 249
              /\ vehicles[1].score - vehicles[2].score <= 251

\* C12 witness: a scored pair off the bounds whose scores differ by 24.9
C12_Witness ==
    /\ pc = "paired"
    /\ vehicles[1].price # 0
    /\ vehicles[1].score < 1000
    /\ vehicles[2].score > 0
    /\ vehicles[1].score - vehicles[2].score = 249

\* the median of a non-empty sequence of numbers, times 4: the middle element
\* of the sorted sequence, or the mean of the two middle elements
MedianOf4(prices) ==
    LET sorted == SortSeq(prices, LAMBDA a, b : a < b)
        n      == Len(sorted)
    IN  IF n % 2 = 1 THEN 4 * sorted[(n + 1) \div 2]
        ELSE 2 * (sorted[n \div 2] + sorted[n \div 2 + 1])

\* C13: the market statistics of a campaign's batch are undefined exactly when
\* the batch has fewer than 4 strictly positive prices; otherwise the median is
\* the interpolated 50th percentile of the positive prices only.
C13_StatsFromFourPrices ==
    pc = "predict" =>
        LET positive == {i \in 1..Len(vehicles) : vehicles[i].price > 0}
            prices   == [k \in 1..Len(SelectSeq(vehicles, LAMBDA v : v.price > 0)) |->
                            SelectSeq(vehicles, LAMBDA v : v.price > 0)[k].price]
        IN  /\ ("median" \notin DOMAIN market_stats) <=> (Cardinality(positive) < 4)
            /\ "median" \in DOMAIN market_stats => market_stats.median = MedianOf4(prices)

\* C14: a title that is exactly one name of a target model (key, model name or
\* alias) is classified as an SUV with that model's key, also when the name
\* contains a name of a model registered earlier.
C14_AliasGivesItsModel ==
    pc = "classified" =>
        \A k \in DOMAIN suv_patterns :
            text \in all_names(suv_patterns[k]) =>
                classified.is_suv /\ classified.model_name = suv_patterns[k].key

\* C15: a 0 field is unknown, not a real zero: a listing the detail check does
\* not concern (confidence >= 0.5) whose known fields are within the campaign's
\* price_max, year_min and mileage_max is kept by the filter, whichever of its
\* fields are 0.
C15_ZeroFieldNotFiltered ==
    (/\ pc = "filtered"
     /\ item.confidence >= 50
     /\ (item.price = 0 \/ item.price <= config.price_max)
     /\ (item.year = 0 \/ item.year >= config.year_min)
     /\ (item.mileage = 0 \/ item.mileage <= config.mileage_max)) =>
        vehicles = <<item>>

\* b is a with everything after its first n items cut off
PrefixUpTo(b, a, n) == b = SubSeq(a, 1, Min(Len(a), n))

\* C16: each bucket handed to the notifier is the prefix of the sorted,
\* deduplicated bucket cut at 5 items: never more than 5, and no item is
\* passed while an earlier item of the bucket is left out.
C16_NotifiedIsPrefix ==
    pc = "notified" =>
        /\ Len(notified_main) <= 5
        /\ Len(notified_maybe) <= 5
        /\ PrefixUpTo(notified_main, immediate_items, 5)
        /\ PrefixUpTo(notified_maybe, maybe_items, 5)

\* C16 witness: both buckets held more than 5 items and 5 of each were passed
C16_Witness ==
    /\ pc = "notified"
    /\ Len(immediate_items) > 5
    /\ Len(maybe_items) > 5
    /\ Len(notified_main) = 5
    /\ Len(notified_maybe) = 5

\* C17: after compute_enhanced_score the score is in [0, 100], the urgency is
\* an integer in 0..5, and the urgency is 0 exactly when the price is unknown:
\* a listing of known price has an urgency in 1..5.
C17_ScoreAndUrgencyRanges ==
    pc = "scored" =>
        /\ 0 <= item.score /\ item.score <= 1000
        /\ item.urgency \in 0..5
        /\ item.urgency = 0 <=> item.price = 0

\* C17 witness: a listing whose base score is over 100 and whose step is
\* already 5 when the price boost applies
C17_Witness ==
    /\ pc = "scored"
    /\ item.price # 0
    /\ BaseScore(item, market_stats, current_year) > 100000
    /\ "median" \in DOMAIN market_stats
    /\ RatioLeq(item.price, market_stats.median, 6)
    /\ item.score = 1000
    /\ item.urgency = 5

\* the requests of a log, and whether one of them succeeded
Requests(log) == SelectSeq(log, LAMBDA e : e.ev \in Failures \cup {"ok"})
Succeeded(log) == \E i \in 1..Len(log) : log[i].ev = "ok"

\* C18, the part that holds in every state: at most max_retries + 1 requests,
\* nothing after a success; at the return, the body of the successful request,
\* None exactly when all max_retries + 1 requests failed, and no back-off sleep
\* as the last thing done.
C18_FetchSafe ==
    /\ pc \in {"fetching", "fetched"} =>
          /\ Len(Requests(fetch_log)) <= Max(0, max_retries + 1)
          /\ \A i \in 1..Len(fetch_log) : fetch_log[i].ev = "ok" => i = Len(fetch_log)
    /\ pc = "fetched" =>
          /\ fetch_result = None <=>
                (/\ ~Succeeded(fetch_log)
                 /\ Len(Requests(fetch_log)) = Max(0, max_retries + 1))
          /\ Succeeded(fetch_log) =>
                fetch_result = [text |-> fetch_log[Len(fetch_log)].body]
          /\ fetch_log # <<>> => fetch_log[Len(fetch_log)].ev # "backoff"

\* C18: fetch_with_retry always returns, after at most max_retries + 1
\* requests: the body of the first request that succeeds, None exactly when
\* all of them failed, with no back-off sleep after the last failure.
C18_FetchTerminates == []C18_FetchSafe /\ <>(pc = "fetched")

\* C18 witness: a call with max_retries = 2 returned None after three failed
\* requests and two back-off sleeps
C18_Witness ==
    /\ pc = "fetched"
    /\ max_retries = 2
    /\ fetch_result = None
    /\ Len(Requests(fetch_log)) = 3
    /\ Len(SelectSeq(fetch_log, LAMBDA e : e.ev = "backoff")) = 2

====
